---- MODULE Spec2Model ----
(***************************************************************************)
(* A model of the semantic cache (src/vector_store.py) and of the retrying *)
(* Entrez call (src/pubmed_crawler.py) of the medical journal crawler.     *)
(*                                                                         *)
(* Spec        the VectorStore object, its two files on disk and the       *)
(*              operations that reach it, one action per call              *)
(* SpecEntrez  PubMedCrawler._safe_entrez_call, one action per step        *)
(* SpecConcurrent      add_article called by two threads                   *)
(* SpecNormalize       _extract_abstract and _format_pub_date              *)
(* SpecSearchArticles  search_articles with its Entrez calls run attempt   *)
(*                     by attempt, under weak fairness of its steps        *)
(***************************************************************************)
EXTENDS Integers, Sequences, FiniteSets, TLC

VARIABLES
    articles,       \* VectorStore.articles: the record list
    index,          \* VectorStore.index: the vectors of the FAISS index, in order
    index_file,     \* data/faiss_index.bin
    articles_file,  \* data/articles.pkl
    last,           \* the call that has just run: its name, arguments, environment
                    \* and result, until the caller drops them
    job,            \* the running search_articles: its arguments, the fetched
                    \* documents still to process and the list it will return
    ez,             \* the running _safe_entrez_call: attempt, position, sleeps, calls
    adders,         \* the position of each thread that is inside add_article
    db,             \* the rows of the articles table of data/articles.db
    norm            \* the raw record being normalized and what came of it

vars ==
    <<articles, index, index_file, articles_file, last, job, ez, adders, db, norm>>

storeVars ==
    <<articles, index, index_file, articles_file, last, job, adders, db, norm>>

----------------------------------------------------------------------------
(* Bounds of the model *)

\* pmids are 1..MaxPmid
MaxPmid == 2

\* search is asked for k in 1..MaxK neighbours
MaxK == 2

\* no vector is added to an index that holds MaxIndex of them (the index of a
\* store reloaded from files of different lengths grows without bound)
MaxIndex == 2

Pmids == 1..MaxPmid

\* the values datetime.now().isoformat() takes; "" is a record without the field
Dates == {"d1"}

\* the text an article is embedded from (title, abstract, authors); NoText is an
\* article dict that lacks one of these keys
NoText == "missing"

\* the text of the document with a given pmid: the documents 1 and 3 have the
\* same embedding, the document 2 another one
TextOf(pmid) == IF pmid % 2 = 1 THEN "t1" ELSE "t2"

\* the queries: the text of a document, a text as far from "t1" as from "t2",
\* and the empty string, which is nearer to "t1" than to "t2"
Queries == {"t1", "q", ""}

----------------------------------------------------------------------------
(* VectorStore *)

\* SentenceTransformer.encode: a fixed function from text to a vector; one
\* coordinate is kept
encode(text) ==
    CASE text = "t1" -> 1
      [] text = "t2" -> 3
      [] text = "q"  -> 2
      [] text = ""   -> 0
      [] OTHER       -> 5

\* the text the embedding is computed from; raises KeyError when a key is missing
EmbeddingRaises(article, env) == article.text = NoText \/ env.embed = "raise"

_get_article_embedding(article) == encode(article.text)

Absent == [kind |-> "absent", data |-> <<>>]

Corrupt == [kind |-> "corrupt", data |-> <<>>]

\* faiss.write_index / pickle.dump: the bytes of a complete file
FileOf(data) == [kind |-> "file", data |-> data]

\* faiss.read_index / pickle.load of a complete file
ReadFile(file) == file.data

EmptyStore == [articles |-> <<>>, index |-> <<>>]

\* the outcomes of the two writes of save_store
SaveOutcomes ==
    {"ok", "index_write_raises", "index_write_corrupts",
     "articles_open_raises", "articles_dump_corrupts"}

\* save_store that forgets the record list: only the index is written
save_store_index_only(w, outcome) ==
    IF outcome \in {"ok", "articles_open_raises"}
    THEN [w EXCEPT !.index_file = FileOf(w.index)]
    ELSE IF outcome = "articles_dump_corrupts"
    THEN [w EXCEPT !.index_file = FileOf(w.index), !.articles_file = Corrupt]
    ELSE IF outcome = "index_write_corrupts"
    THEN [w EXCEPT !.index_file = Corrupt]
    ELSE w

\* save_store: w is the store and its files; every exception is swallowed
save_store(w, outcome) ==
    CASE outcome = "ok" ->
           [w EXCEPT !.index_file = FileOf(w.index),
                     !.articles_file = FileOf(w.articles)]
      [] outcome = "index_write_raises" -> w
      [] outcome = "index_write_corrupts" ->
           [w EXCEPT !.index_file = Corrupt]
      [] outcome = "articles_open_raises" ->
           [w EXCEPT !.index_file = FileOf(w.index)]
      [] outcome = "articles_dump_corrupts" ->
           [w EXCEPT !.index_file = FileOf(w.index),
                     !.articles_file = Corrupt]

\* an existence check that looks at the newest record only
HasPmidLastOnly(arts, pmid) == arts # <<>> /\ arts[Len(arts)].pmid = pmid

\* any(a['pmid'] == article['pmid'] for a in self.articles)
HasPmid(arts, pmid) == \E i \in 1..Len(arts) : arts[i].pmid = pmid

\* the environment of an add: which internal step raises, the time, the outcome
\* of the writes
AddEnvs ==
    [embed : {"ok", "raise"}, index_add : {"ok", "raise"},
     now : Dates, save : SaveOutcomes]

\* the record add_article appends: the caller's dict, stamped
Stamped(article, env) == [article EXCEPT !.added_date = env.now]

\* add_article without its existence check
add_article_no_check(w, article, env) ==
    IF EmbeddingRaises(article, env) \/ env.index_add = "raise"
    THEN [w |-> w, ret |-> FALSE, saved |-> FALSE]
    ELSE LET w1 == [w EXCEPT
                      !.index = Append(w.index, _get_article_embedding(article)),
                      !.articles = Append(w.articles, Stamped(article, env))]
         IN  [w |-> save_store(w1, env.save), ret |-> TRUE, saved |-> TRUE]

\* add_article that persists before it returns False for a duplicate
add_article_saves_duplicate(w, article, env) ==
    IF HasPmid(w.articles, article.pmid)
    THEN [w |-> save_store(w, env.save), ret |-> FALSE, saved |-> TRUE]
    ELSE add_article_no_check(w, article, env)

\* add_article that undoes the in-memory add when the persist fails
add_article_rollback(w, article, env) ==
    IF HasPmid(w.articles, article.pmid) \/ env.save # "ok"
    THEN [w |-> w, ret |-> FALSE, saved |-> env.save # "ok"]
    ELSE add_article_no_check(w, article, env)

\* an add_article that puts the new vector and the new record in front
add_article_prepends(w, article, env) ==
    IF HasPmid(w.articles, article.pmid)
           \/ EmbeddingRaises(article, env) \/ env.index_add = "raise"
    THEN [w |-> w, ret |-> FALSE, saved |-> FALSE]
    ELSE LET w1 == [w EXCEPT
                      !.index = <<_get_article_embedding(article)>> \o w.index,
                      !.articles = <<Stamped(article, env)>> \o w.articles]
         IN  [w |-> save_store(w1, env.save), ret |-> TRUE, saved |-> TRUE]

\* add_article: the new world, the value returned and whether save_store ran
add_article(w, article, env) ==
    IF HasPmid(w.articles, article.pmid)
    THEN [w |-> w, ret |-> FALSE, saved |-> FALSE]
    ELSE IF EmbeddingRaises(article, env) \/ env.index_add = "raise"
    THEN [w |-> w, ret |-> FALSE, saved |-> FALSE]
    ELSE LET w1 == [w EXCEPT
                      !.index = Append(w.index, _get_article_embedding(article)),
                      !.articles = Append(w.articles, Stamped(article, env))]
         IN  [w |-> save_store(w1, env.save), ret |-> TRUE, saved |-> TRUE]

\* load_store: faiss.read_index and pickle.load raise on a file that is not
\* complete
load_store(w) ==
    IF w.index_file.kind # "absent" /\ w.articles_file.kind # "absent"
    THEN IF w.index_file.kind = "corrupt" \/ w.articles_file.kind = "corrupt"
         THEN [w EXCEPT !.index = <<>>, !.articles = <<>>]
         ELSE [w EXCEPT !.index = ReadFile(w.index_file),
                        !.articles = ReadFile(w.articles_file)]
    ELSE w

Min(a, b) == IF a < b THEN a ELSE b

\* squared Euclidean distance of IndexFlatL2
L2(u, v) == (u - v) * (u - v)

\* faiss index.search(query_vector, n): every list of n positions the index can
\* answer with: nearest first, -1 (here 0) where the index holds fewer than n
\* vectors; the order of vectors at equal distance is the build's choice
Neighbours(idx, qv, n) ==
    LET m == Min(n, Len(idx))
    IN  { nb \in [1..n -> 0..Len(idx)] :
            /\ \A i \in 1..n : (nb[i] = 0) <=> (i > m)
            /\ \A i, j \in 1..m : i < j => nb[i] # nb[j]
            /\ \A i, j \in 1..m : i < j => L2(idx[nb[i]], qv) <= L2(idx[nb[j]], qv)
            /\ \A p \in 1..Len(idx) :
                 (\A i \in 1..m : nb[i] # p) =>
                     \A i \in 1..m : L2(idx[nb[i]], qv) <= L2(idx[p], qv) }

\* the floating-point numbers of the scores: 1.0 is One units of distance and
\* the numbers from 1.0 upwards are Ulp units apart
One == 16

Ulp == 8

\* 1 + distance as the floating-point addition gives it: the nearest number,
\* the even one of two that are equally near
OnePlus(distance) ==
    LET q == distance \div Ulp
        r == distance % Ulp
    IN  One + Ulp * (IF 2 * r < Ulp THEN q
                     ELSE IF 2 * r > Ulp THEN q + 1
                     ELSE IF q % 2 = 0 THEN q ELSE q + 1)

\* the score in exact arithmetic
ScoreExact(distance) == [num |-> One, den |-> One + distance]

\* float(1 / (1 + distance)) as the fraction num / den
Score(distance) == [num |-> One, den |-> OnePlus(distance)]

\* the comparison of the sort, reversed
ScoreLess(a, b) ==
    a.similarity_score.num * b.similarity_score.den
        < b.similarity_score.num * a.similarity_score.den

\* a.similarity_score > b.similarity_score
ScoreGreater(a, b) ==
    a.similarity_score.num * b.similarity_score.den
        > b.similarity_score.num * a.similarity_score.den

\* insertion of x into a list sorted by descending score, after its equals
RECURSIVE InsertDesc(_, _)
InsertDesc(sorted, x) ==
    IF sorted = <<>> THEN <<x>>
    ELSE IF ScoreGreater(x, Head(sorted))
         THEN <<x>> \o sorted
         ELSE <<Head(sorted)>> \o InsertDesc(Tail(sorted), x)

\* sorted(results, key=similarity_score, reverse=True): a stable sort
RECURSIVE SortedDesc(_)
SortedDesc(results) ==
    IF results = <<>> THEN <<>>
    ELSE InsertDesc(SortedDesc(SubSeq(results, 1, Len(results) - 1)),
                    results[Len(results)])

\* the copy of a stored record that search returns
Scored(article, distance) ==
    [pmid |-> article.pmid, text |-> article.text,
     added_date |-> article.added_date, similarity_score |-> Score(distance)]

\* the loop of search that stops after the first neighbour
MatchedFirstOnly(w, qv, nb, i) ==
    IF Len(nb) = 0 \/ nb[1] = 0 THEN <<>>
    ELSE <<Scored(w.articles[nb[1]], L2(w.index[nb[1]], qv))>>

\* the loop of search over the neighbour list nb
RECURSIVE Matched(_, _, _, _)
Matched(w, qv, nb, i) ==
    IF i > Len(nb) THEN <<>>
    ELSE IF nb[i] = 0 THEN Matched(w, qv, nb, i + 1)
    ELSE <<Scored(w.articles[nb[i]], L2(w.index[nb[i]], qv))>>
             \o Matched(w, qv, nb, i + 1)

\* the internal steps of search that raise: the embedding, the index asked for
\* no neighbour, the lookup of a position that has no record (IndexError)
SearchFails(w, k, embed, nb) ==
    \/ embed = "raise"
    \/ Min(k, Len(w.articles)) = 0
    \/ \E i \in 1..Len(nb) : nb[i] > Len(w.articles)

\* search without its except branch for the embedding
search_ignores_embed(w, query, k, embed, nb) ==
    IF SearchFails(w, k, "ok", nb) THEN <<>>
    ELSE SortedDesc(Matched(w, encode(query), nb, 1))

\* search: [] when an internal step raises, else the matched records by
\* descending score
search(w, query, k, embed, nb) ==
    IF SearchFails(w, k, embed, nb) THEN <<>>
    ELSE SortedDesc(Matched(w, encode(query), nb, 1))

\* search that sets the score on the stored records themselves
search_store_in_place(w, query, k, embed, nb) ==
    IF SearchFails(w, k, embed, nb) THEN w
    ELSE [w EXCEPT !.articles =
            [p \in 1..Len(w.articles) |->
                IF \E i \in 1..Len(nb) : nb[i] = p
                THEN Scored(w.articles[p], L2(w.index[p], encode(query)))
                ELSE w.articles[p]]]

\* the store after search: self.articles[idx].copy() gets the score, the record
\* list and the index are not written
search_store(w, query, k, embed, nb) == w

----------------------------------------------------------------------------
(* The store, its files and the calls made on it *)

\* the VectorStore object and the two files of its data directory
World ==
    [articles |-> articles, index |-> index,
     index_file |-> index_file, articles_file |-> articles_file]

\* the record of a call: arg is the pmid or the k it was given, text the text
\* or the query, had says whether the store held the pmid when the call began,
\* err whether an internal step raised, save the outcome of its save_store,
\* n0 and m0 the lengths of the record list and of the index when it began,
\* batch the number of documents efetch answered, pause the time slept for the
\* rate limit
Call(op, arg, text, had, err, save, ret, results) ==
    [op |-> op, arg |-> arg, text |-> text, had |-> had, err |-> err,
     save |-> save, ret |-> ret, results |-> results,
     n0 |-> Len(articles), m0 |-> Len(index), path |-> "", use_cache |-> FALSE,
     cache |-> "none", calls |-> 0, raised |-> FALSE, reply |-> "none",
     batch |-> 0, pause |-> 0]

NoCall ==
    [op |-> "init", arg |-> 0, text |-> "", had |-> FALSE, err |-> FALSE,
     save |-> "none", ret |-> FALSE, results |-> <<>>, n0 |-> 0, m0 |-> 0,
     path |-> "", use_cache |-> FALSE, cache |-> "none", calls |-> 0,
     raised |-> FALSE, reply |-> "none", batch |-> 0, pause |-> 0]

\* a crawler that calls Entrez before it looks into the cache
EntrezCallsBeforeCache(op, path) ==
    IF op = "get_article_by_pmid" \/ path \in {"esearch_raised", "no_ids", "cache_hit"}
    THEN 1
    ELSE 2

\* the number of Entrez functions a call of the crawler has called when it
\* takes a given path: none when the cache answers, esearch alone when it
\* raises or finds no id, efetch alone in get_article_by_pmid
EntrezCalls(op, path) ==
    IF path = "cache_hit" THEN 0
    ELSE IF op = "get_article_by_pmid" \/ path \in {"esearch_raised", "no_ids"}
    THEN 1
    ELSE 2

\* the query in the record of a search_articles that went past the cache
AnyQuery == "*"

\* the paths of search_articles and get_article_by_pmid on which an exception
\* reaches their except block
RaisingPaths == {"esearch_raised", "efetch_raised", "normalize_raised"}

\* a search_articles or get_article_by_pmid without its try / except
crawler_propagates(path, out) ==
    [raised |-> path \in RaisingPaths,
     value |-> IF path \in RaisingPaths THEN <<>> ELSE out]

\* the try / except Exception around the body of search_articles and of
\* get_article_by_pmid: the exception is logged and the empty result returned
crawler_returns(path, out) ==
    [raised |-> FALSE, value |-> IF path \in RaisingPaths THEN <<>> ELSE out]

\* time.sleep(0.34), in hundredths of a second
RatePause == 34

\* the time a call of the crawler sleeps for the rate limit: the one sleep of
\* the two functions is at the end of the try block of search_articles
PauseOf(op, path) ==
    IF op = "search_articles" /\ path = "fetched" THEN RatePause ELSE 0

\* the message the /search handler of the bot ends with, given what its
\* search_articles(query, max_results=10, use_cache=False) came to
SearchReply(outcome) ==
    IF outcome.raised THEN "error"
    ELSE IF outcome.value = <<>> THEN "no_articles"
    ELSE "stored"

\* the record of a call of the crawler: path is the way it took, use_cache its
\* argument, cache what the look into the cache came to: "hit", "miss" (nothing
\* found), "failed" (the embedding of the query raised), "none" (not asked);
\* reply is the message of the /search handler when the call is one it makes
CrawlerCall(op, arg, text, path, use_cache, cache, results) ==
    LET outcome == crawler_returns(path, results)
    IN  [Call(op, arg, text, FALSE, FALSE, "none", outcome.value # <<>>,
              outcome.value)
            EXCEPT !.path = path, !.use_cache = use_cache, !.cache = cache,
                   !.calls = EntrezCalls(op, path),
                   !.err = path \in RaisingPaths,
                   !.raised = outcome.raised,
                   !.pause = PauseOf(op, path),
                   !.reply = IF op = "search_articles" /\ ~use_cache
                                  /\ path # "running"
                             THEN SearchReply(outcome) ELSE "none"]

\* no search_articles is running
NoJob == [pc |-> "idle", docs |-> <<>>, out |-> <<>>]

\* no _safe_entrez_call is running
EzIdle ==
    [pc |-> "idle", func |-> "none", attempt |-> 0, calls |-> 0,
     sleeps |-> <<>>, errors |-> <<>>, result |-> "none"]

\* the threads that call add_article
Threads == {1, 2}

\* no thread is inside add_article
AddersIdle == [t \in Threads |-> [pc |-> "idle", pmid |-> 0, ret |-> FALSE]]

\* no raw record is being normalized
NormIdle == [pc |-> "idle", raw |-> <<>>, out |-> <<>>]

\* VectorStore.__init__ in a data directory that holds no file; no caller of
\* ArticleStorage.store_article exists, the articles table has no row
Init ==
    /\ articles = <<>>
    /\ index = <<>>
    /\ index_file = Absent
    /\ articles_file = Absent
    /\ last = NoCall
    /\ job = NoJob
    /\ ez = EzIdle
    /\ adders = AddersIdle
    /\ db = <<>>
    /\ norm = NormIdle

SetWorld(w) ==
    /\ articles' = w.articles
    /\ index' = w.index
    /\ index_file' = w.index_file
    /\ articles_file' = w.articles_file

\* a caller's add_article(article); the time and the outcome of the writes are
\* left out of the choice when the call does not get to them
AddArticle ==
    /\ last = NoCall
    /\ \E pmid \in Pmids, env \in AddEnvs :
      \E text \in {TextOf(pmid), NoText} :
        LET article == [pmid |-> pmid, text |-> text, added_date |-> ""]
            had == HasPmid(articles, pmid)
            raises == EmbeddingRaises(article, env) \/ env.index_add = "raise"
            r == add_article(World, article, env)
        IN  /\ (~had /\ ~raises) => Len(index) < MaxIndex
            /\ (had \/ raises) => env.now = "d1" /\ env.save = "ok"
            /\ text = NoText => env.embed = "ok" /\ env.index_add = "ok"
            /\ SetWorld(r.w)
            /\ last' = Call("add", pmid, text, had, ~had /\ raises,
                            IF r.saved THEN env.save ELSE "none", r.ret, <<>>)
            /\ UNCHANGED <<job, ez, adders, db, norm>>

\* a caller's search(query, k)
Search ==
    /\ last = NoCall
    /\ \E query \in Queries, k \in 1..MaxK, embed \in {"ok", "raise"} :
      \E nb \in Neighbours(index, encode(query), Min(k, Len(articles))) :
        /\ last' = Call("search", k, query, FALSE,
                        SearchFails(World, k, embed, nb), "none", FALSE,
                        search(World, query, k, embed, nb))
        /\ SetWorld(search_store(World, query, k, embed, nb))
        /\ UNCHANGED <<job, ez, adders, db, norm>>

\* a caller's save_store()
SaveStore ==
    /\ last = NoCall
    /\ \E outcome \in SaveOutcomes :
        /\ SetWorld(save_store(World, outcome))
        /\ last' = Call("save", 0, "", FALSE, FALSE, outcome, FALSE, <<>>)
        /\ UNCHANGED <<job, ez, adders, db, norm>>

\* a caller's load_store() on the live store
LoadStore ==
    /\ last = NoCall
    /\ SetWorld(load_store(World))
    /\ last' = Call("load", 0, "", FALSE, FALSE, "none", FALSE, <<>>)
    /\ UNCHANGED <<job, ez, adders, db, norm>>

\* the process ends and a new one constructs its VectorStore: __init__ makes
\* an empty index and an empty list, then calls load_store
Restart ==
    /\ last = NoCall
    /\ SetWorld(load_store([World EXCEPT !.articles = <<>>, !.index = <<>>]))
    /\ last' = Call("restart", 0, "", FALSE, FALSE, "none", FALSE, <<>>)
    /\ UNCHANGED <<job, ez, adders, db, norm>>

----------------------------------------------------------------------------
(* PubMedCrawler: search_articles and get_article_by_pmid *)

\* an article_info dict that carries a score
article_info_scored(pmid) ==
    [pmid |-> pmid, text |-> TextOf(pmid), added_date |-> "",
     similarity_score |-> Score(0)]

\* the article_info dict built from a fetched document: a document always gets
\* a title, an abstract and an author list, empty when upstream has none
article_info(pmid) == [pmid |-> pmid, text |-> TextOf(pmid), added_date |-> ""]

\* the PubmedArticle lists efetch can answer a search of retmax k with
FetchedDocs(k) ==
    UNION { { docs \in [1..n -> Pmids] : \A a, b \in 1..n : a # b => docs[a] # docs[b] }
            : n \in 1..k }

\* what the two Entrez calls of search_articles come to: a call that raises
\* after its retries, an empty IdList, or the documents fetched
Upstream == {"esearch_raised", "no_ids", "efetch_raised", "fetched"}

\* a search_articles that never returns what the cache found
NeverServedFromCache(use_cache, cached) == FALSE

\* a search_articles that returns what the cache found only when the best
\* record is at distance 0 of the query
ServedFromCacheAtDistanceZero(use_cache, cached) ==
    /\ use_cache
    /\ cached # <<>>
    /\ cached[1].similarity_score.num = cached[1].similarity_score.den

\* if use_cache: cached_results = search(...); if cached_results: return them
ServedFromCache(use_cache, cached) == use_cache /\ cached # <<>>

\* what the look into the cache can come to for a query and max_results = k:
\* with use_cache, a search whose embedding raises ("failed"), one that returns
\* nothing ("miss") and one that returns records ("hit")
CacheLooks(query, k, use_cache) ==
    IF ~use_cache THEN {"none"}
    ELSE {"failed"} \cup
         { IF ServedFromCache(use_cache, search(World, query, k, "ok", nb))
           THEN "hit" ELSE "miss"
           : nb \in Neighbours(index, encode(query), Min(k, Len(articles))) }

\* search_articles(query, max_results, use_cache) up to its loop: the cache is
\* asked first; when it does not answer the ids are searched and the documents
\* fetched. Past the cache the query and max_results only shape what upstream
\* answers, and the record of the running call leaves them out
SearchArticlesCall ==
    /\ last = NoCall
    /\ \/ \E query \in Queries, k \in 1..MaxK :
          \E nb \in Neighbours(index, encode(query), Min(k, Len(articles))) :
            LET cached == search(World, query, k, "ok", nb)
            IN  /\ ServedFromCache(TRUE, cached)
                /\ last' = CrawlerCall("search_articles", k, query,
                                       "cache_hit", TRUE, "hit", cached)
                /\ SetWorld(search_store(World, query, k, "ok", nb))
                /\ job' = job
       \/ \E query \in Queries, k \in 1..MaxK, use_cache \in BOOLEAN,
             up \in Upstream \ {"fetched"} :
          \E cache \in CacheLooks(query, k, use_cache) \ {"hit"} :
            /\ last' = CrawlerCall("search_articles", k, query, up,
                                   use_cache, cache, <<>>)
            /\ job' = job
            /\ UNCHANGED <<articles, index, index_file, articles_file>>
       \/ \E use_cache \in BOOLEAN, docs \in FetchedDocs(MaxK) :
          \E cache \in UNION { CacheLooks(query, k, use_cache) :
                                 query \in Queries, k \in Len(docs)..MaxK } \ {"hit"} :
            /\ use_cache =>
                   Len(index) + Cardinality({i \in 1..Len(docs) :
                                       ~HasPmid(articles, docs[i])}) <= MaxIndex
            /\ last' = [CrawlerCall("search_articles", 0, AnyQuery, "running",
                                    use_cache, cache, <<>>)
                           EXCEPT !.batch = Len(docs)]
            /\ job' = [pc |-> "loop", docs |-> docs, out |-> <<>>]
            /\ UNCHANGED <<articles, index, index_file, articles_file>>
    /\ UNCHANGED <<ez, adders, db, norm>>

\* the shapes of a PubmedArticle: with every key the loop reads; without
\* 'ArticleTitle' or 'Abstract'; without 'PMID'; without 'Article'; with a
\* MeSH heading that has no 'DescriptorName'
RecordShapes == {"complete", "no_title", "no_pmid", "no_article", "no_descriptor"}

\* article['MedlineCitation'], medline['Article'], medline['PMID'] and
\* mesh['DescriptorName'] are subscripts and raise KeyError on a key that is
\* not there; the other keys are read with get or after an in test
NormalizeRaises(shape) == shape \in {"no_pmid", "no_article", "no_descriptor"}

\* a loop that takes the documents from the end of the list
IterateBackwards(docs) ==
    [item |-> docs[Len(docs)], rest |-> SubSeq(docs, 1, Len(docs) - 1)]

\* for article in fetch_results['PubmedArticle']: the document of the next
\* pass and those left for the passes after it
Iterate(docs) == [item |-> Head(docs), rest |-> Tail(docs)]

\* one pass of the loop over fetch_results['PubmedArticle']: the document is
\* normalized, appended to the list to return and, with use_cache, added to the
\* store; the dict appended is the one add_article stamps. A document without
\* MedlineCitation, Article or PMID raises and search_articles returns []
SearchArticlesStep ==
    /\ job.pc = "loop"
    /\ job.docs # <<>>
    /\ \E shape \in RecordShapes, env \in AddEnvs :
         LET info == article_info(Iterate(job.docs).item)
             bad == NormalizeRaises(shape)
             had == HasPmid(articles, info.pmid)
             raises == EmbeddingRaises(info, env) \/ env.index_add = "raise"
             r == IF last.use_cache /\ ~bad
                  THEN add_article(World, info, env)
                  ELSE [w |-> World, ret |-> FALSE, saved |-> FALSE]
         IN  /\ (~last.use_cache \/ bad \/ had \/ raises) =>
                    env.now = "d1" /\ env.save = "ok"
             /\ (~last.use_cache \/ bad) =>
                    env.embed = "ok" /\ env.index_add = "ok"
             /\ SetWorld(r.w)
             /\ IF bad
                THEN /\ last' = [CrawlerCall("search_articles", 0, AnyQuery,
                                             "normalize_raised", last.use_cache,
                                             last.cache, <<>>)
                                    EXCEPT !.batch = last.batch,
                                           !.n0 = last.n0, !.m0 = last.m0]
                     /\ job' = NoJob
                ELSE /\ last' = last
                     /\ job' = [job EXCEPT
                                  !.docs = Iterate(@).rest,
                                  !.out = Append(@, IF r.ret THEN Stamped(info, env)
                                                    ELSE info)]
    /\ UNCHANGED <<ez, adders, db, norm>>

\* the loop is over: time.sleep(0.34), return articles
SearchArticlesReturn ==
    /\ job.pc = "loop"
    /\ job.docs = <<>>
    /\ last' = [CrawlerCall("search_articles", 0, AnyQuery, "fetched",
                            last.use_cache, last.cache, job.out)
                   EXCEPT !.batch = last.batch, !.n0 = last.n0, !.m0 = last.m0]
    /\ job' = NoJob
    /\ UNCHANGED <<articles, index, index_file, articles_file, ez, adders, db, norm>>

\* what the efetch of get_article_by_pmid comes to
UpstreamById == {"efetch_raised", "not_found", "normalize_raised", "fetched"}

\* get_article_by_pmid(pmid): the stored record when there is one, else the
\* document fetched, normalized and added
GetArticleByPmid ==
    /\ last = NoCall
    /\ \E pmid \in Pmids, up \in UpstreamById, env \in AddEnvs :
         LET cached == SelectSeq(articles, LAMBDA a : a.pmid = pmid)
             info == article_info(pmid)
             raises == EmbeddingRaises(info, env) \/ env.index_add = "raise"
             fetches == cached = <<>> /\ up = "fetched"
             r == IF fetches THEN add_article(World, info, env)
                  ELSE [w |-> World, ret |-> FALSE, saved |-> FALSE]
         IN  /\ cached # <<>> => up = "fetched"
             /\ (~fetches \/ raises) => env.now = "d1" /\ env.save = "ok"
             /\ ~fetches => env.embed = "ok" /\ env.index_add = "ok"
             /\ (fetches /\ ~raises) => Len(index) < MaxIndex
             /\ SetWorld(r.w)
             /\ last' = CrawlerCall("get_article_by_pmid", pmid, "",
                            IF cached # <<>> THEN "cache_hit" ELSE up, TRUE,
                            IF cached # <<>> THEN "hit" ELSE "miss",
                            IF cached # <<>> THEN <<Head(cached)>>
                            ELSE IF ~fetches THEN <<>>
                            ELSE IF r.ret THEN <<Stamped(info, env)>>
                            ELSE <<info>>)
    /\ UNCHANGED <<job, ez, adders, db, norm>>

\* the limit the /ask handler gives to get_articles_by_query
AskLimit == 10

\* ArticleStorage.get_articles_by_query(query, limit) on the rows of the
\* articles table, latest first: the first rows, limit at most, whose query
\* holds the one given; every row does when it is the empty string
get_articles_by_query(rows, query, limit) ==
    LET found == SelectSeq(rows, LAMBDA row : query = "" \/ row.query = query)
    IN  SubSeq(found, 1, Min(limit, Len(found)))

\* the message the /ask handler ends with
AskReply(rows) == IF rows = <<>> THEN "no_articles_in_storage" ELSE "review"

\* the /ask handler of the bot: it reads the articles table, never the vector
\* store
Ask ==
    /\ last = NoCall
    /\ LET rows == get_articles_by_query(db, "", AskLimit)
       IN  last' = [Call("ask", AskLimit, "", FALSE, FALSE, "none",
                         rows # <<>>, rows)
                       EXCEPT !.reply = AskReply(rows)]
    /\ UNCHANGED <<articles, index, index_file, articles_file, job, ez,
                   adders, db, norm>>

\* the call has returned and its caller goes on
Return ==
    /\ last # NoCall
    /\ job.pc = "idle"
    /\ last' = NoCall
    /\ UNCHANGED <<articles, index, index_file, articles_file, job, ez,
                   adders, db, norm>>

Next ==
    \/ AddArticle
    \/ Search
    \/ SaveStore
    \/ LoadStore
    \/ Restart
    \/ SearchArticlesCall
    \/ SearchArticlesStep
    \/ SearchArticlesReturn
    \/ GetArticleByPmid
    \/ Ask
    \/ Return

Spec == Init /\ [][Next]_vars

----------------------------------------------------------------------------
(* VectorStore.add_article called by two threads: one action per statement, *)
(* nothing in add_article takes a lock                                       *)

\* thread t calls add_article(article) with a document of some pmid
AddCall(t) ==
    /\ adders[t].pc = "idle"
    /\ Len(index) < MaxIndex /\ Len(articles) < MaxIndex
    /\ \E pmid \in Pmids :
         adders' = [adders EXCEPT ![t] = [pc |-> "check", pmid |-> pmid,
                                          ret |-> FALSE]]
    /\ UNCHANGED <<articles, index, index_file, articles_file, last, job, ez,
                   db, norm>>

\* if any(a['pmid'] == article['pmid'] for a in self.articles): return False
AddExists(t) ==
    /\ adders[t].pc = "check"
    /\ adders' = [adders EXCEPT ![t].pc =
                     IF HasPmid(articles, adders[t].pmid) THEN "done"
                     ELSE "embed"]
    /\ UNCHANGED <<articles, index, index_file, articles_file, last, job, ez,
                   db, norm>>

\* embedding = self._get_article_embedding(article); self.index.add(...): an
\* exception of either ends the call with False
AddIndexAdd(t) ==
    /\ adders[t].pc = "embed"
    /\ \E outcome \in {"ok", "raise"} :
         IF outcome = "ok"
         THEN /\ index' = Append(index, encode(TextOf(adders[t].pmid)))
              /\ adders' = [adders EXCEPT ![t].pc = "append"]
         ELSE /\ index' = index
              /\ adders' = [adders EXCEPT ![t].pc = "done"]
    /\ UNCHANGED <<articles, index_file, articles_file, last, job, ez, db, norm>>

\* article['added_date'] = datetime.now().isoformat();
\* self.articles.append(article)
AddAppend(t) ==
    /\ adders[t].pc = "append"
    /\ \E now \in Dates :
         articles' = Append(articles,
                            [pmid |-> adders[t].pmid,
                             text |-> TextOf(adders[t].pmid),
                             added_date |-> now])
    /\ adders' = [adders EXCEPT ![t].pc = "save"]
    /\ UNCHANGED <<index, index_file, articles_file, last, job, ez, db, norm>>

\* self.save_store(); return True
AddSaveStore(t) ==
    /\ adders[t].pc = "save"
    /\ \E outcome \in SaveOutcomes : SetWorld(save_store(World, outcome))
    /\ adders' = [adders EXCEPT ![t].pc = "done", ![t].ret = TRUE]
    /\ UNCHANGED <<last, job, ez, db, norm>>

\* the caller of thread t has its answer and goes on
AddReturn(t) ==
    /\ adders[t].pc = "done"
    /\ adders' = [adders EXCEPT ![t] = AddersIdle[t]]
    /\ UNCHANGED <<articles, index, index_file, articles_file, last, job, ez,
                   db, norm>>

NextConcurrent ==
    \/ \E t \in Threads : AddCall(t)
    \/ \E t \in Threads : AddExists(t)
    \/ \E t \in Threads : AddIndexAdd(t)
    \/ \E t \in Threads : AddAppend(t)
    \/ \E t \in Threads : AddSaveStore(t)
    \/ \E t \in Threads : AddReturn(t)

SpecConcurrent == Init /\ [][NextConcurrent]_vars

----------------------------------------------------------------------------
(* PubMedCrawler._extract_abstract. A string is the sequence of its pieces: *)
(* Str("") is the empty sequence, and concatenation is \o                   *)

\* the most sections an AbstractText list has
MaxSections == 2

\* a key the dict does not hold
Missing == "<missing>"

\* the texts upstream can put in a field
Texts == {"", "a", "b"}

Str(x) == IF x = "" THEN <<>> ELSE <<x>>

\* dict.get(key, default)
Get(value, default) == IF value = Missing THEN default ELSE value

\* the items of an AbstractText list: a plain string, or a dict that can hold
\* the keys 'Label', '#text' and '_'
Sections ==
    [kind : {"str"}, label : {Missing}, text : Texts, alt : {Missing}]
        \cup [kind : {"dict"}, label : {Missing, "L"},
              text : {Missing, "", "a"}, alt : {Missing, "b"}]

\* abstract_data['AbstractText']: not there, a string, a list of sections or
\* one dict
AbstractTexts ==
    {[kind |-> "missing", value |-> "", items |-> <<>>]}
        \cup {[kind |-> "str", value |-> t, items |-> <<>>] : t \in Texts}
        \cup {[kind |-> "list", value |-> "", items |-> l] :
                l \in UNION {[1..n -> Sections] : n \in 0..MaxSections}}
        \cup {[kind |-> "dict", value |-> "", items |-> <<s>>] :
                s \in {x \in Sections : x.kind = "dict"}}

\* article_data as _extract_abstract looks at it: 'Abstract' not there, a
\* string, or a dict that can hold 'AbstractText' and 'CopyrightInformation'
RawAbstracts ==
    {[kind |-> "missing", value |-> "",
      AbstractText |-> [kind |-> "missing", value |-> "", items |-> <<>>],
      CopyrightInformation |-> Missing]}
        \cup {[kind |-> "str", value |-> t,
               AbstractText |-> [kind |-> "missing", value |-> "", items |-> <<>>],
               CopyrightInformation |-> Missing] : t \in Texts}
        \cup [kind : {"dict"}, value : {""}, AbstractText : AbstractTexts,
              CopyrightInformation : {Missing, "c"}]

\* ' '.join(sections)
RECURSIVE Join(_)
Join(sections) ==
    IF sections = <<>> THEN <<>>
    ELSE IF Len(sections) = 1 THEN sections[1]
    ELSE sections[1] \o <<" ">> \o Join(Tail(sections))

\* a loop that appends every dict section, its label left out
SectionAppendedUnlabelled(text) ==
    IF text.kind = "dict"
    THEN <<Str(Get(text.text, Get(text.alt, "")))>>
    ELSE <<Str(text.text)>>

\* one pass of the loop over the list: what it appends to sections, nothing or
\* one string
SectionAppended(text) ==
    IF text.kind = "dict"
    THEN IF text.label # Missing
         THEN << <<text.label, ": ">> \o Str(Get(text.text, "")) >>
         ELSE LET content == Get(text.text, Get(text.alt, ""))
              IN  IF content # "" THEN <<Str(content)>> ELSE <<>>
    ELSE <<Str(text.text)>>

RECURSIVE SectionsOf(_)
SectionsOf(abstract_text) ==
    IF abstract_text = <<>> THEN <<>>
    ELSE SectionAppended(Head(abstract_text)) \o SectionsOf(Tail(abstract_text))

\* _extract_abstract(article_data); the copyright notice is looked at only
\* when the dict holds no 'AbstractText'
_extract_abstract(article_data) ==
    IF article_data.kind = "missing" THEN <<>>
    ELSE IF article_data.kind = "str" THEN Str(article_data.value)
    ELSE LET abstract_text == article_data.AbstractText
         IN  IF abstract_text.kind = "str" THEN Str(abstract_text.value)
             ELSE IF abstract_text.kind = "list"
             THEN Join(SectionsOf(abstract_text.items))
             ELSE IF abstract_text.kind = "dict"
             THEN LET text == abstract_text.items[1]
                  IN  IF text.label # Missing
                      THEN <<text.label, ": ">> \o Str(Get(text.text, ""))
                      ELSE Str(Get(text.text, ""))
             ELSE IF article_data.CopyrightInformation # Missing
             THEN Str(article_data.CopyrightInformation)
             ELSE <<>>

\* a caller's _extract_abstract(article_data)
ExtractAbstract ==
    /\ norm.pc = "idle"
    /\ \E article_data \in RawAbstracts :
         norm' = [pc |-> "done", raw |-> article_data,
                  out |-> _extract_abstract(article_data)]
    /\ UNCHANGED <<articles, index, index_file, articles_file, last, job, ez,
                   adders, db>>

\* the caller has the abstract and goes on
ExtractAbstractReturn ==
    /\ norm.pc = "done"
    /\ norm' = NormIdle
    /\ UNCHANGED <<articles, index, index_file, articles_file, last, job, ez,
                   adders, db>>

\* the PubDate dicts _format_pub_date is given: each of 'Year', 'Month' and
\* 'Day' is there or not; the dict with none of them is the empty one
PubDates ==
    [Year : {Missing, "2024"}, Month : {Missing, "Jan"}, Day : {Missing, "5"}]

\* the values of the keys of a list that a dict holds, in the order of the list
RECURSIVE PartsPresent(_, _)
PartsPresent(pub_date, keys) ==
    IF keys = <<>> THEN <<>>
    ELSE (IF pub_date[Head(keys)] # Missing THEN <<Str(pub_date[Head(keys)])>>
          ELSE <<>>) \o PartsPresent(pub_date, Tail(keys))

\* _format_pub_date(pub_date): "" for the empty dict, else the parts there are,
\* joined by a space
_format_pub_date(pub_date) ==
    IF \A key \in DOMAIN pub_date : pub_date[key] = Missing THEN <<>>
    ELSE LET date_parts == PartsPresent(pub_date, <<"Year", "Month", "Day">>)
         IN  IF date_parts # <<>> THEN Join(date_parts) ELSE <<>>

\* a caller's _format_pub_date(pub_date)
FormatPubDate ==
    /\ norm.pc = "idle"
    /\ \E pub_date \in PubDates :
         norm' = [pc |-> "formatted", raw |-> pub_date,
                  out |-> _format_pub_date(pub_date)]
    /\ UNCHANGED <<articles, index, index_file, articles_file, last, job, ez,
                   adders, db>>

\* the caller has the publication date and goes on
FormatPubDateReturn ==
    /\ norm.pc = "formatted"
    /\ norm' = NormIdle
    /\ UNCHANGED <<articles, index, index_file, articles_file, last, job, ez,
                   adders, db>>

NextNormalize ==
    \/ ExtractAbstract
    \/ ExtractAbstractReturn
    \/ FormatPubDate
    \/ FormatPubDateReturn

SpecNormalize == Init /\ [][NextNormalize]_vars

----------------------------------------------------------------------------
(* PubMedCrawler._safe_entrez_call, one action per step of its loop *)

max_retries == 3

retry_delay == 1

\* the Entrez functions the crawler calls
EntrezFuncs == {"esearch", "efetch"}

\* the exceptions an attempt can end with
EntrezErrors == {"URLError", "HTTPError", "CorruptedXMLError"}

RECURSIVE Pow2(_)
Pow2(n) == IF n = 0 THEN 1 ELSE 2 * Pow2(n - 1)

\* time.sleep(retry_delay * (2 ** attempt)) at the top of the try block
BackoffDelay(attempt) == retry_delay * Pow2(attempt)

\* the test of the except block, off by one
IsLastAttemptOffByOne(attempt) == attempt = max_retries

\* attempt == max_retries - 1 in the except block
IsLastAttempt(attempt) == attempt = max_retries - 1

\* _safe_entrez_call(func, ...) is entered: the for loop starts at attempt 0
EzStart ==
    /\ ez.pc \in {"idle", "returned", "raised"}
    /\ \E func \in EntrezFuncs :
           ez' = [EzIdle EXCEPT !.pc = "try", !.func = func]
    /\ UNCHANGED storeVars

\* the top of the try block: the delay before every attempt but the first
EzTry ==
    /\ ez.pc = "try"
    /\ ez' = [ez EXCEPT
                !.pc = "call",
                !.sleeps = IF ez.attempt > 0
                           THEN Append(@, BackoffDelay(ez.attempt)) ELSE @]
    /\ UNCHANGED storeVars

\* func(**kwargs) answers and, for esearch, Entrez.read parses the answer
EzCallReturns ==
    /\ ez.pc = "call"
    /\ ez' = [ez EXCEPT
                !.pc = "returned",
                !.calls = @ + 1,
                !.result = IF ez.func = "efetch" THEN "handle" ELSE "parsed"]
    /\ UNCHANGED storeVars

\* func(**kwargs) or Entrez.read raises
EzCallRaises ==
    /\ ez.pc = "call"
    /\ \E e \in EntrezErrors :
           /\ e = "CorruptedXMLError" => ez.func = "esearch"
           /\ ez' = [ez EXCEPT !.pc = "except", !.calls = @ + 1,
                               !.errors = Append(@, e)]
    /\ UNCHANGED storeVars

\* the except block: re-raise on the last attempt, else sleep and loop; a loop
\* that runs out of attempts returns None
EzExcept ==
    /\ ez.pc = "except"
    /\ ez' = IF IsLastAttempt(ez.attempt)
             THEN [ez EXCEPT !.pc = "raised", !.result = ez.errors[Len(ez.errors)]]
             ELSE IF ez.attempt + 1 < max_retries
             THEN [ez EXCEPT !.pc = "try", !.attempt = @ + 1,
                             !.sleeps = Append(@, retry_delay)]
             ELSE [ez EXCEPT !.pc = "returned", !.attempt = @ + 1,
                             !.sleeps = Append(@, retry_delay), !.result = "None"]
    /\ UNCHANGED storeVars

NextEntrez ==
    \/ EzStart
    \/ EzTry
    \/ EzCallReturns
    \/ EzCallRaises
    \/ EzExcept

SpecEntrez == Init /\ [][NextEntrez]_vars

----------------------------------------------------------------------------
(* PubMedCrawler.search_articles with its two _safe_entrez_call run attempt *)
(* by attempt: job.pc says where the call is, ez is the Entrez call it made *)

\* search_articles(query, max_results, use_cache) up to its esearch: the cache
\* is asked first, and _safe_entrez_call(Entrez.esearch, ...) begins when it
\* does not answer. As in SearchArticlesCall the record of the running call
\* leaves the query and max_results out
SearchArticlesBegin ==
    /\ last = NoCall
    /\ job.pc = "idle"
    /\ \E query \in Queries, k \in 1..MaxK, use_cache \in BOOLEAN,
          embed \in {"ok", "raise"} :
        \E nb \in Neighbours(index, encode(query), Min(k, Len(articles))) :
          LET cached == IF use_cache THEN search(World, query, k, embed, nb)
                        ELSE <<>>
              cache == IF ~use_cache THEN "none"
                       ELSE IF SearchFails(World, k, embed, nb) THEN "failed"
                       ELSE IF cached # <<>> THEN "hit" ELSE "miss"
          IN  /\ ~use_cache => embed = "ok"
              /\ IF ServedFromCache(use_cache, cached)
                 THEN /\ last' = CrawlerCall("search_articles", k, query,
                                             "cache_hit", TRUE, "hit", cached)
                      /\ SetWorld(search_store(World, query, k, embed, nb))
                      /\ UNCHANGED <<job, ez>>
                 ELSE /\ last' = CrawlerCall("search_articles", 0, AnyQuery,
                                             "running", use_cache, cache, <<>>)
                      /\ job' = [pc |-> "esearch", docs |-> <<>>, out |-> <<>>,
                                 batch |-> <<>>]
                      /\ ez' = [EzIdle EXCEPT !.pc = "try", !.func = "esearch"]
                      /\ UNCHANGED <<articles, index, index_file, articles_file>>
    /\ UNCHANGED <<adders, db, norm>>

\* the record of a search_articles that ends on a given path without a
\* document to return
EndsWith(path) ==
    [CrawlerCall("search_articles", last.arg, last.text, path,
                 last.use_cache, last.cache, <<>>)
        EXCEPT !.n0 = last.n0, !.m0 = last.m0]

\* the esearch is over: its error goes to the except of search_articles; an
\* empty IdList returns []; else _safe_entrez_call(Entrez.efetch, ...) begins
SearchArticlesAfterEsearch ==
    /\ job.pc = "esearch"
    /\ ez.pc \in {"returned", "raised"}
    /\ IF ez.pc = "raised"
       THEN /\ last' = EndsWith("esearch_raised")
            /\ job' = NoJob
            /\ ez' = EzIdle
       ELSE \E ids \in BOOLEAN :
              IF ids
              THEN /\ job' = [job EXCEPT !.pc = "efetch"]
                   /\ ez' = [EzIdle EXCEPT !.pc = "try", !.func = "efetch"]
                   /\ last' = last
              ELSE /\ last' = EndsWith("no_ids")
                   /\ job' = NoJob
                   /\ ez' = EzIdle
    /\ UNCHANGED <<articles, index, index_file, articles_file, adders, db, norm>>

\* the efetch is over: its error, or that of Entrez.read on the handle, goes
\* to the except of search_articles; else the loop over the documents begins
SearchArticlesAfterEfetch ==
    /\ job.pc = "efetch"
    /\ ez.pc \in {"returned", "raised"}
    /\ \/ /\ last' = EndsWith("efetch_raised")
          /\ job' = NoJob
       \/ /\ ez.pc = "returned"
          /\ \E docs \in FetchedDocs(MaxK) :
               /\ last.use_cache =>
                      Len(index) + Cardinality({i \in 1..Len(docs) :
                                        ~HasPmid(articles, docs[i])}) <= MaxIndex
               /\ job' = [job EXCEPT !.pc = "loop", !.docs = docs,
                                     !.batch = docs]
               /\ last' = [last EXCEPT !.batch = Len(docs)]
    /\ ez' = EzIdle
    /\ UNCHANGED <<articles, index, index_file, articles_file, adders, db, norm>>

NextSearchArticles ==
    \/ SearchArticlesBegin
    \/ EzTry
    \/ EzCallReturns
    \/ EzCallRaises
    \/ EzExcept
    \/ SearchArticlesAfterEsearch
    \/ SearchArticlesAfterEfetch
    \/ SearchArticlesStep
    \/ SearchArticlesReturn
    \/ Return

\* every attempt of an Entrez call returns or raises, and the interpreter
\* goes on with the statement that is next
SpecSearchArticles ==
    /\ Init
    /\ [][NextSearchArticles]_vars
    /\ WF_vars(EzTry)
    /\ WF_vars(EzCallReturns \/ EzCallRaises)
    /\ WF_vars(EzExcept)
    /\ WF_vars(SearchArticlesAfterEsearch)
    /\ WF_vars(SearchArticlesAfterEfetch)
    /\ WF_vars(SearchArticlesStep)
    /\ WF_vars(SearchArticlesReturn)

----------------------------------------------------------------------------
(* The claims *)

Complete(file) == file.kind = "file"

PmidsOf(records) == {records[i].pmid : i \in 1..Len(records)}

\* the article of the call recorded in last, as its caller holds it
LastArticle == [pmid |-> last.arg, text |-> last.text, added_date |-> ""]

\* C1: after any sequence of add_article calls the number of stored records
\* equals the number of vectors in the index.
ParallelLengths == Len(articles) = Len(index)

\* C2 as stated: an add_article(r) on a store that does not hold r's id returns
\* True and the same call made again returns False, the record list and the
\* index being one longer than before the first call.
DedupTwice ==
    (last.op = "add" /\ ~last.had) =>
        /\ last.ret
        /\ \A env \in AddEnvs :
             LET again == add_article(World, LastArticle, env)
             IN  /\ ~again.ret
                 /\ Len(again.w.articles) = last.n0 + 1
                 /\ Len(again.w.index) = last.m0 + 1

\* C2 amended: the same when neither the embedding nor the index insertion of
\* the first call raises; when one of them raises the first call returns False
\* and the record list and the index keep their lengths.
DedupTwiceUnlessRaised ==
    (last.op = "add" /\ ~last.had) =>
        IF last.err
        THEN ~last.ret /\ Len(articles) = last.n0 /\ Len(index) = last.m0
        ELSE /\ last.ret
             /\ \A env \in AddEnvs :
                  LET again == add_article(World, LastArticle, env)
                  IN  /\ ~again.ret
                      /\ Len(again.w.articles) = last.n0 + 1
                      /\ Len(again.w.index) = last.m0 + 1

\* a first add of a second record has just returned True
DedupTwiceReached ==
    last.op = "add" /\ ~last.had /\ ~last.err /\ last.ret /\ last.n0 = 1

\* C3: no two stored records have the same pmid.
UniquePmids ==
    \A i, j \in 1..Len(articles) : i # j => articles[i].pmid # articles[j].pmid

\* an add of a pmid the store of two records already held has returned
UniquePmidsReached == last.op = "add" /\ last.had /\ Len(articles) = 2

\* C4: an add of a record whose id the store holds returns False, runs no
\* save_store, and leaves the record list, the index and the two files as they
\* were.
DuplicateAddMutatesNothing ==
    [][(last'.op = "add" /\ HasPmid(articles, last'.arg)) =>
           /\ ~last'.ret
           /\ last'.save = "none"
           /\ articles' = articles
           /\ index' = index
           /\ index_file' = index_file
           /\ articles_file' = articles_file]_vars

\* a duplicate add has returned on a store whose files lag behind it
DuplicateAddReached ==
    /\ last.op = "add" /\ last.had
    /\ articles # <<>>
    /\ articles_file # FileOf(articles)

\* C5: an add of a new record whose persist fails still returns True, with the
\* record at the end of the list and its vector at the end of the index; no
\* call but load_store takes a record out of the list; and a search that asks
\* for as many neighbours as there are records, on a store whose list and index
\* are parallel, returns every record of the list, saved or not.
PersistFailureKeepsAdd ==
    /\ [](/\ (/\ last.op = "add" /\ ~last.had /\ ~last.err
              /\ last.save \notin {"ok", "none"}) =>
                 /\ last.ret
                 /\ Len(articles) = last.n0 + 1
                 /\ articles[Len(articles)].pmid = last.arg
                 /\ Len(index) = last.m0 + 1
                 /\ index[Len(index)] = encode(last.text)
          /\ (last.op = "add" /\ ~last.had /\ ~last.err) => last.save # "none"
          /\ (/\ last.op = "search" /\ ~last.err
              /\ Len(articles) = Len(index)
              /\ last.arg >= Len(articles)) =>
                 PmidsOf(last.results) = PmidsOf(articles))
    /\ [][last'.op \notin {"load", "restart"} =>
              /\ Len(articles') >= Len(articles)
              /\ SubSeq(articles', 1, Len(articles)) = articles]_vars

\* a search has returned a record in a process none of whose saves has written
\* a file
PersistFailureReached ==
    /\ last.op = "search"
    /\ last.results # <<>>
    /\ index_file = Absent
    /\ articles_file = Absent

\* C6: after a save_store that wrote both files, load_store into a new, empty
\* store yields the record list that was saved, in its order, and an index of
\* the size that was saved.
RoundTrip ==
    (last.op = "save" /\ last.save = "ok") =>
        LET fresh == load_store([World EXCEPT !.articles = <<>>, !.index = <<>>])
        IN  /\ fresh.articles = articles
            /\ Len(fresh.index) = Len(index)
            /\ fresh.index = index

\* a store of two records has been saved
RoundTripReached ==
    last.op = "save" /\ last.save = "ok" /\ Len(articles) = 2

\* C7: after load_store the store holds the pair of the files when both are
\* complete, and is empty when either is missing or unreadable.
RestoreAllOrNothing ==
    last.op \in {"load", "restart"} =>
        IF Complete(index_file) /\ Complete(articles_file)
        THEN articles = ReadFile(articles_file) /\ index = ReadFile(index_file)
        ELSE articles = <<>> /\ index = <<>>

\* C8: the two files describe the same store, and a store loaded by a new
\* process has a record list and an index of one length.
FilesWrittenTogether ==
    /\ (Complete(index_file) /\ Complete(articles_file)) =>
           Len(ReadFile(index_file)) = Len(ReadFile(articles_file))
    /\ last.op = "restart" => Len(articles) = Len(index)

\* C9: at most max_retries attempts; a return is that of the first attempt that
\* did not raise, and no attempt follows it; when max_retries attempts have
\* raised, the call raises the error of the last of them.
RetryBound ==
    /\ ez.calls <= max_retries
    /\ ez.attempt < max_retries
    /\ ez.pc = "returned" =>
           /\ ez.result \in {"handle", "parsed"}
           /\ ez.calls = Len(ez.errors) + 1
    /\ ez.pc = "raised" =>
           /\ ez.calls = max_retries
           /\ Len(ez.errors) = max_retries
           /\ ez.result = ez.errors[max_retries]
    /\ Len(ez.errors) = max_retries => ez.pc \in {"except", "raised"}

\* three attempts have raised and the error of the third one, which is not
\* that of the first, has reached the caller
RetryBoundReached ==
    ez.pc = "raised" /\ ez.errors[1] # ez.errors[3] /\ ez.result = ez.errors[3]

\* C10: a call whose three attempts raise has slept twice: 1 second before the
\* second attempt, 2 seconds before the third, and not after the last failure.
BackoffSchedule ==
    ez.pc = "raised" =>
        ez.sleeps = <<retry_delay * Pow2(0), retry_delay * Pow2(1)>>

\* C11 as stated: a search(query, k) on a store of n records returns exactly
\* min(k, n) records.
SearchClamps ==
    last.op = "search" => Len(last.results) = Min(last.arg, last.n0)

\* C11 amended: a search in which no internal step raises returns exactly
\* min(k, n, size of the index) records, which is min(k, n) when the index holds
\* as many vectors as the list holds records; a search in which one raises
\* returns none.
SearchClampsUnlessFails ==
    last.op = "search" =>
        /\ Len(last.results) =
               IF last.err THEN 0 ELSE Min(last.arg, Min(last.n0, last.m0))
        /\ (~last.err /\ last.n0 = last.m0) =>
               Len(last.results) = Min(last.arg, last.n0)

\* a search for more neighbours than the store holds records has returned all
\* its records
SearchClampsReached ==
    /\ last.op = "search" /\ ~last.err
    /\ last.n0 = 1 /\ last.arg > last.n0
    /\ Len(last.results) = 1

\* C12: a search returns the empty list when the store holds no record and when
\* an internal step raises (the embedding, the index query, the lookup of a
\* record), and leaves the record list, the index and the two files as they
\* were.
SearchNeverRaises ==
    [][last'.op = "search" =>
           /\ Len(articles) = 0 => last'.results = <<>>
           /\ last'.err => last'.results = <<>>
           /\ articles' = articles
           /\ index' = index
           /\ index_file' = index_file
           /\ articles_file' = articles_file]_vars

\* a search on a store that holds a record has failed inside and returned the
\* empty list
SearchNeverRaisesReached ==
    /\ last.op = "search" /\ last.err
    /\ last.n0 >= 1
    /\ last.results = <<>>
    /\ articles # <<>>

\* the position in the record list of the record with a given pmid
PositionOf(pmid) == CHOOSE p \in 1..Len(articles) : articles[p].pmid = pmid

\* the distance from the query of the search recorded in last to the vector of
\* a record it returned
DistanceOf(record) == L2(index[PositionOf(record.pmid)], encode(last.text))

\* C13: the records a search returns are in non-increasing order of score, and
\* a record nearer to the query than another one comes before it.
ScoreMonotone ==
    last.op = "search" =>
        \A i, j \in 1..Len(last.results) :
            i < j =>
                /\ ~ScoreGreater(last.results[j], last.results[i])
                /\ ~(DistanceOf(last.results[j]) < DistanceOf(last.results[i]))

\* a search has returned two records at different distances whose scores are
\* the same floating-point number
ScoreMonotoneReached ==
    /\ last.op = "search"
    /\ Len(last.results) = 2
    /\ DistanceOf(last.results[1]) < DistanceOf(last.results[2])
    /\ last.results[1].similarity_score = last.results[2].similarity_score

\* C14: two records a search returns at the same distance from the query are in
\* the order in which they were inserted.
TieInsertionOrder ==
    last.op = "search" =>
        \A i, j \in 1..Len(last.results) :
            (i < j /\ DistanceOf(last.results[i]) = DistanceOf(last.results[j])) =>
                PositionOf(last.results[i].pmid) < PositionOf(last.results[j].pmid)

\* 1 + distance in exact arithmetic, in units
OnePlusExact(distance) == One + distance

\* C15 as stated: the score of a returned record at distance d is 1 / (1 + d),
\* greater than 0 and at most 1, and it is 1 exactly when d = 0.
ScoreBound ==
    last.op = "search" =>
        \A i \in 1..Len(last.results) :
            LET d == DistanceOf(last.results[i])
                s == last.results[i].similarity_score
            IN  /\ d >= 0
                /\ s.num * OnePlusExact(d) = One * s.den
                /\ s.num > 0 /\ s.den > 0 /\ s.num <= s.den
                /\ (s.num = s.den) <=> (d = 0)

\* C15 amended: the score is 1 / (1 + d) with the sum rounded to the nearest
\* floating-point number, greater than 0 and at most 1; it is 1 when d = 0 and
\* also when d > 0 is too small to change the sum, and less than 1 otherwise.
ScoreBoundRounded ==
    last.op = "search" =>
        \A i \in 1..Len(last.results) :
            LET d == DistanceOf(last.results[i])
                s == last.results[i].similarity_score
                off == s.den - OnePlusExact(d)
            IN  /\ d >= 0
                /\ s.num = One
                /\ s.den % Ulp = 0
                /\ 2 * off <= Ulp /\ 2 * off >= 0 - Ulp
                /\ s.num > 0 /\ s.den > 0 /\ s.num <= s.den
                /\ d = 0 => s.num = s.den
                /\ (s.num = s.den) <=> (2 * d <= Ulp)

\* a search has returned a record at a distance greater than 0 with the score 1
ScoreBoundReached ==
    /\ last.op = "search"
    /\ \E i \in 1..Len(last.results) :
         /\ DistanceOf(last.results[i]) > 0
         /\ last.results[i].similarity_score.num
                = last.results[i].similarity_score.den

\* C16: no record of the record list has a similarity_score field, and a search
\* changes neither the record list nor the index.
NoScoreInStore ==
    /\ [](\A i \in 1..Len(articles) :
              "similarity_score" \notin DOMAIN articles[i])
    /\ [][last'.op = "search" =>
              articles' = articles /\ index' = index]_vars

\* search_articles has returned scored records from a store whose records have
\* no score
NoScoreInStoreReached ==
    /\ last.op = "search_articles" /\ last.path = "cache_hit"
    /\ \E i \in 1..Len(last.results) :
         /\ "similarity_score" \in DOMAIN last.results[i]
         /\ \E p \in 1..Len(articles) :
              /\ articles[p].pmid = last.results[i].pmid
              /\ "similarity_score" \notin DOMAIN articles[p]

\* C17: when search_articles has fetched and returns documents, with the cache
\* asked first or not, the pmid of each of them is in the record list.
WriteBack ==
    (last.op = "search_articles" /\ last.path = "fetched") =>
        \A i \in 1..Len(last.results) :
            HasPmid(articles, last.results[i].pmid)

\* a search_articles with use_cache, whatever its query and max_results, is
\* answered by the cache when the embedding of the query does not raise
AnyQueryServed ==
    \A query \in Queries, k \in 1..MaxK :
        \A nb \in Neighbours(index, encode(query), Min(k, Len(articles))) :
            ServedFromCache(TRUE, search(World, query, k, "ok", nb))

\* the cache has answered the search_articles recorded in last: the records
\* returned are those of the search, and no Entrez function was called
AnsweredByCache ==
    (last.op = "search_articles" /\ last.path = "cache_hit") =>
        /\ last.use_cache
        /\ last.calls = 0
        /\ job = NoJob
        /\ last.results # <<>>
        /\ \E nb \in Neighbours(index, encode(last.text),
                                Min(last.arg, Len(articles))) :
               last.results = search(World, last.text, last.arg, "ok", nb)

\* C18 as stated: a search_articles the cache answers returns the records of
\* the cache and calls no Entrez function; after a search_articles with
\* use_cache that fetched and returned a document, a search_articles made again
\* is answered by the cache.
CacheHitAvoidsNetwork ==
    /\ AnsweredByCache
    /\ (/\ last.op = "search_articles" /\ last.use_cache
        /\ last.path = "fetched" /\ last.results # <<>>) => AnyQueryServed

\* C18 amended: a search_articles the cache answers returns the records of the
\* cache, calls no Entrez function and writes nothing to the store or its
\* files; a search_articles goes past a cache that was asked only when the
\* search of the cache returns nothing; and the search_articles made again
\* after one that fetched is answered by the cache when a document returned is
\* in the record list and the index holds as many vectors as the list records.
CacheHitAvoidsNetworkWhenStored ==
    /\ []AnsweredByCache
    /\ [][(last'.op = "search_articles" /\ last'.path = "cache_hit") =>
              /\ articles' = articles
              /\ index' = index
              /\ index_file' = index_file
              /\ articles_file' = articles_file]_vars
    /\ [][(last = NoCall /\ last'.op = "search_articles" /\ last'.cache = "miss") =>
              \E query \in Queries, k \in 1..MaxK :
                \E nb \in Neighbours(index, encode(query), Min(k, Len(articles))) :
                    search(World, query, k, "ok", nb) = <<>>]_vars
    /\ []((/\ last.op = "search_articles" /\ last.use_cache
           /\ last.path = "fetched"
           /\ \E i \in 1..Len(last.results) :
                  HasPmid(articles, last.results[i].pmid)
           /\ Len(articles) = Len(index)) => AnyQueryServed)

\* a search_articles that found the cache empty has fetched two documents and
\* stored them
CacheHitAvoidsNetworkReached ==
    /\ last.op = "search_articles" /\ last.use_cache
    /\ last.path = "fetched" /\ last.cache = "miss"
    /\ Len(last.results) = 2
    /\ \A i \in 1..2 : HasPmid(articles, last.results[i].pmid)
    /\ Len(articles) = Len(index)
    /\ AnyQueryServed

\* every record of a list has, or every record lacks, the similarity_score field
AllScored(records) ==
    \A i \in 1..Len(records) : "similarity_score" \in DOMAIN records[i]

NoneScored(records) ==
    \A i \in 1..Len(records) : "similarity_score" \notin DOMAIN records[i]

ResultsCarryScore ==
    (last.op = "search_articles" /\ last.use_cache) => AllScored(last.results)

\* C21: a search_articles with the empty string as query returns no article,
\* whatever the store holds.
EmptyQueryReturnsNothing ==
    (last.op = "search_articles" /\ last.text = "") => last.results = <<>>

\* C22: search_articles raises nothing; when esearch or efetch has raised after
\* its retries it returns the empty list, and the /search handler then ends with
\* its no-articles message, not with its error message.
UpstreamFailureIsNoResults ==
    last.op = "search_articles" =>
        /\ ~last.raised
        /\ last.reply # "error"
        /\ last.path \in {"esearch_raised", "efetch_raised"} =>
               /\ last.results = <<>>
               /\ ~last.use_cache => last.reply = "no_articles"

\* the efetch of the search_articles of a /search has raised, and the handler
\* has answered that no article was found
UpstreamFailureIsNoResultsReached ==
    /\ last.op = "search_articles" /\ ~last.use_cache
    /\ last.path = "efetch_raised"
    /\ last.err /\ ~last.raised
    /\ last.reply = "no_articles"

\* the operations that work on the store of a running process
StoreOps == {"add", "search", "save", "search_articles", "get_article_by_pmid"}

\* C23: in every step of add_article, search, save_store, search_articles and
\* get_article_by_pmid the record list keeps every record it held, at its
\* place and with every field as it was, the date it was added included; what
\* is new is put at its end.
AppendOnly ==
    [][last'.op \in StoreOps =>
           /\ Len(articles') >= Len(articles)
           /\ SubSeq(articles', 1, Len(articles)) = articles]_vars

\* get_article_by_pmid has fetched a document and added it to a store that
\* held a record, which is still the first one
AppendOnlyReached ==
    /\ last.op = "get_article_by_pmid" /\ last.path = "fetched" /\ last.ret
    /\ last.n0 = 1 /\ Len(articles) = 2
    /\ articles[2].pmid = last.arg
    /\ articles[1].added_date # ""

\* no thread is between the first and the last statement of add_article
AddersQuiet == \A t \in Threads : adders[t].pc \in {"idle", "done"}

\* C24: when the statements of two add_article calls interleave, the store
\* they leave holds a pmid once at most, as many vectors as records, at place i
\* the vector of the record at place i, and of two calls with the same pmid one
\* at most has returned True.
AddIsCriticalSection ==
    AddersQuiet =>
        /\ \A i, j \in 1..Len(articles) :
               articles[i].pmid = articles[j].pmid => i = j
        /\ Len(articles) = Len(index)
        /\ \A i \in 1..Min(Len(articles), Len(index)) :
               index[i] = encode(articles[i].text)
        /\ \A t, u \in Threads :
               (/\ t # u
                /\ adders[t].pc = "done" /\ adders[u].pc = "done"
                /\ adders[t].pmid = adders[u].pmid) =>
                   ~(adders[t].ret /\ adders[u].ret)

\* C25: when the /search handler has answered that it stored articles, the
\* /ask handler run on the storage as it then is finds every one of them and
\* does not answer that the storage holds no article.
SearchedStaysForAsk ==
    (last.op = "search_articles" /\ last.reply = "stored") =>
        LET rows == get_articles_by_query(db, "", AskLimit)
        IN  /\ AskReply(rows) # "no_articles_in_storage"
            /\ \A i \in 1..Len(last.results) :
                   \E j \in 1..Len(rows) : rows[j].pmid = last.results[i].pmid

\* the text of a section, wherever the section holds it
SectionText(section) ==
    IF section.kind = "dict" THEN Get(section.text, Get(section.alt, ""))
    ELSE section.text

\* the text of a section with "<label>: " in front when it has a label
Labelled(section, text) ==
    (IF section.label # Missing THEN <<section.label, ": ">> ELSE <<>>)
        \o Str(text)

\* the abstract of a single string or of a single labelled section
SingleShapes ==
    LET abstract_text == norm.raw.AbstractText
    IN  (norm.pc = "done" /\ norm.raw.kind = "dict") =>
            /\ abstract_text.kind = "str" => norm.out = Str(abstract_text.value)
            /\ (abstract_text.kind = "dict"
                    /\ abstract_text.items[1].label # Missing) =>
                   norm.out = <<abstract_text.items[1].label, ": ">>
                                  \o Str(Get(abstract_text.items[1].text, ""))

\* C26 as stated: the abstract of a list of sections is the texts of all its
\* sections in their order with one space between two of them, a text having
\* "<label>: " in front exactly when its section has a label; a single string
\* is returned as it is, a single labelled section as "<label>: <text>".
AbstractOfSections ==
    /\ SingleShapes
    /\ (norm.pc = "done" /\ norm.raw.kind = "dict"
            /\ norm.raw.AbstractText.kind = "list") =>
           LET items == norm.raw.AbstractText.items
           IN  norm.out = Join([i \in 1..Len(items) |->
                                   Labelled(items[i], SectionText(items[i]))])

\* the sections that count: all but a dict without label whose text is empty
Counted(section) ==
    section.kind = "str" \/ section.label # Missing
        \/ SectionText(section) # ""

\* C26, amended: a dict section without label whose text is empty is left out,
\* separator included, and the text of a section with a label is what it holds
\* under '#text' alone; with that the abstract is the concatenation stated.
AbstractOfCountedSections ==
    /\ SingleShapes
    /\ (norm.pc = "done" /\ norm.raw.kind = "dict"
            /\ norm.raw.AbstractText.kind = "list") =>
           LET counted == SelectSeq(norm.raw.AbstractText.items, Counted)
           IN  norm.out =
                   Join([i \in 1..Len(counted) |->
                           Labelled(counted[i],
                                    IF counted[i].label # Missing
                                    THEN Get(counted[i].text, "")
                                    ELSE SectionText(counted[i]))])

\* a list of a section with a label and one without has been made one abstract
AbstractOfCountedSectionsReached ==
    /\ norm.pc = "done" /\ norm.raw.kind = "dict"
    /\ norm.raw.AbstractText.kind = "list"
    /\ Len(norm.raw.AbstractText.items) = 2
    /\ norm.raw.AbstractText.items[1].label = "L"
    /\ norm.raw.AbstractText.items[1].text = "a"
    /\ norm.raw.AbstractText.items[2].kind = "str"
    /\ norm.raw.AbstractText.items[2].text = "b"
    /\ norm.out = <<"L", ": ", "a", " ", "b">>

\* the raw abstract carries no abstract text: 'AbstractText' is not there, is
\* the empty string, or is a list, maybe empty, of sections with empty text
NoAbstractText(abstract_text) ==
    \/ abstract_text.kind = "missing"
    \/ abstract_text.kind = "str" /\ abstract_text.value = ""
    \/ /\ abstract_text.kind = "list"
       /\ \A i \in 1..Len(abstract_text.items) :
              SectionText(abstract_text.items[i]) = ""

\* C27: when the raw abstract carries no abstract text and holds a copyright
\* notice, _extract_abstract returns the copyright notice.
CopyrightFallback ==
    (/\ norm.pc = "done" /\ norm.raw.kind = "dict"
     /\ norm.raw.CopyrightInformation # Missing
     /\ NoAbstractText(norm.raw.AbstractText)) =>
        norm.out = Str(norm.raw.CopyrightInformation)

\* C28: a document of a batch that lacks a field raises nothing in
\* search_articles, and every document of the batch is returned.
SchemaSurpriseAbsorbed ==
    (last.op = "search_articles" /\ last.batch > 0 /\ job.pc = "idle") =>
        /\ ~last.err
        /\ Len(last.results) = last.batch

\* C29: search_articles and get_article_by_pmid sleep 0.34 s once before they
\* return what a completed efetch has answered.
PacedAfterFetch ==
    (/\ last.op \in {"search_articles", "get_article_by_pmid"}
     /\ last.path = "fetched") =>
        last.pause = RatePause

\* C30: when search_articles or get_article_by_pmid returns its empty result,
\* after a failed external call or for any other reason, the store holds the
\* records and the vectors it held when the call began and no other.
EmptyResultKeepsCache ==
    (/\ last.op \in {"search_articles", "get_article_by_pmid"}
     /\ job.pc = "idle"
     /\ last.results = <<>>) =>
        /\ Len(articles) = last.n0
        /\ Len(index) = last.m0

\* C31: the publication date is the year, the month and the day that are
\* there, in that order with a space between two of them, and the empty string
\* whenever there is no year.
PubDateNeedsYear ==
    norm.pc = "formatted" =>
        /\ norm.raw.Year # Missing =>
               norm.out = Join(PartsPresent(norm.raw, <<"Year", "Month", "Day">>))
        /\ norm.raw.Year = Missing => norm.out = <<>>

\* the records of the list with a given pmid
StoredWith(pmid) == SelectSeq(articles, LAMBDA a : a.pmid = pmid)

\* get_article_by_pmid raises nothing; for a pmid the store holds it returns
\* the stored record and calls no Entrez function; for a pmid upstream does not
\* know and after any failure it returns None
LookupCacheFirst ==
    last.op = "get_article_by_pmid" =>
        /\ ~last.raised
        /\ last.cache = "hit" =>
               /\ last.path = "cache_hit" /\ last.calls = 0
               /\ last.results = <<Head(StoredWith(last.arg))>>
        /\ last.cache = "miss" => last.path # "cache_hit" /\ last.calls = 1
        /\ last.path \in {"not_found", "efetch_raised", "normalize_raised"} =>
               last.results = <<>> /\ ~last.ret
        /\ last.path = "fetched" =>
               Len(last.results) = 1 /\ last.results[1].pmid = last.arg

\* C32 as stated: get_article_by_pmid is cache-first and raises nothing, and
\* the record it has fetched is in the store when it returns, so that the same
\* call made again calls no Entrez function.
DirectLookup ==
    /\ LookupCacheFirst
    /\ (last.op = "get_article_by_pmid" /\ last.path = "fetched") =>
           HasPmid(articles, last.arg)

\* C32 amended: get_article_by_pmid is cache-first and raises nothing; a call
\* on a store that holds the pmid is a cache hit and leaves the store as it
\* is; the record it has fetched is returned, and is in the store, with its
\* date, exactly when add_article has not failed: after an embedding or
\* index.add that raised the record is returned without date and the store is
\* as it was, so that the same call made again fetches again.
DirectLookupUnlessAddFails ==
    /\ []LookupCacheFirst
    /\ [][(/\ last = NoCall /\ last'.op = "get_article_by_pmid"
           /\ HasPmid(articles, last'.arg)) =>
              /\ last'.path = "cache_hit" /\ last'.calls = 0
              /\ articles' = articles /\ index' = index
              /\ index_file' = index_file /\ articles_file' = articles_file]_vars
    /\ []((last.op = "get_article_by_pmid" /\ last.path = "fetched") =>
              IF last.results[1].added_date # ""
              THEN /\ HasPmid(articles, last.arg)
                   /\ articles[Len(articles)] = last.results[1]
                   /\ Len(articles) = last.n0 + 1
              ELSE /\ ~HasPmid(articles, last.arg)
                   /\ Len(articles) = last.n0 /\ Len(index) = last.m0)

\* get_article_by_pmid has fetched a document, added it to the store and
\* returned it
DirectLookupReached ==
    /\ last.op = "get_article_by_pmid" /\ last.path = "fetched"
    /\ last.calls = 1 /\ last.ret
    /\ HasPmid(articles, last.arg)
    /\ articles[Len(articles)] = last.results[1]

\* a search_articles was answered by the cache alone: no Entrez function was
\* called, no loop over documents runs and the record list is as it was
FetchPathStarved ==
    /\ last.path = "cache_hit"
    /\ last.calls = 0
    /\ job = NoJob
    /\ Len(articles) = last.n0 /\ Len(index) = last.m0

\* C33 as stated: once the store holds a record, every search_articles with
\* use_cache and max_results >= 1 is answered by the cache, whatever the query:
\* no Entrez function is called and no document enters the store.
CacheStarvesFetch ==
    (last.op = "search_articles" /\ last.use_cache /\ last.n0 >= 1) =>
        FetchPathStarved

\* C33 amended: the same when the embedding of the query does not raise and
\* the index holds a vector and no more vectors than the list holds records; a
\* search of the cache that raises inside, or that finds no vector, returns
\* nothing and search_articles goes upstream.
CacheStarvesFetchWhenSearchable ==
    (/\ last.op = "search_articles" /\ last.use_cache
     /\ last.n0 >= 1 /\ last.m0 >= 1 /\ last.m0 <= last.n0
     /\ last.cache # "failed") =>
        FetchPathStarved

\* a store of one record has answered a search_articles whose query is not the
\* text of the record
CacheStarvesFetchReached ==
    /\ last.op = "search_articles" /\ last.use_cache
    /\ last.n0 = 1 /\ last.m0 = 1
    /\ last.text = "q"
    /\ FetchPathStarved
    /\ last.results[1].text # last.text

\* the pmids of the records of a list, in its order
PmidSeq(records) == [i \in 1..Len(records) |-> records[i].pmid]

\* a search_articles makes one _safe_entrez_call of esearch, then one of
\* efetch at most, and neither makes more than max_retries attempts
AttemptsBounded ==
    /\ ez.calls <= max_retries
    /\ ez.pc # "idle" =>
           /\ job.pc \in {"esearch", "efetch"}
           /\ ez.func = job.pc
    /\ ez.pc = "raised" => ez.calls = max_retries

\* the documents are taken one at a time in the order efetch gave them: those
\* returned so far and those left make the batch, and with use_cache the
\* records added since the call began are those of the passes made, in order
OneAtATime ==
    job.pc = "loop" =>
        /\ PmidSeq(job.out) \o job.docs = job.batch
        /\ IF last.use_cache
           THEN SelectSeq(job.out, LAMBDA a : a.added_date # "")
                    = SubSeq(articles, last.n0 + 1, Len(articles))
           ELSE Len(articles) = last.n0

\* C34: when every attempt of an Entrez call returns or raises, a
\* search_articles that has begun returns a list and raises nothing; it makes
\* at most 3 attempts of esearch and at most 3 of efetch, and takes the
\* documents one at a time in upstream order, each normalized and, with
\* use_cache, added before the next one.
SearchArticlesTerminates ==
    /\ [](last.op = "search_articles" => ~last.raised)
    /\ []AttemptsBounded
    /\ []OneAtATime
    /\ (last.op = "search_articles" /\ last.path = "running")
           ~> (last.op = "search_articles" /\ last.path # "running")

\* a search_articles with use_cache has returned the two documents of a batch
\* and has added both in their order
SearchArticlesTerminatesReached ==
    /\ last.op = "search_articles" /\ last.use_cache
    /\ last.path = "fetched" /\ last.batch = 2
    /\ job = NoJob /\ ez = EzIdle
    /\ Len(last.results) = 2
    /\ last.n0 = 0
    /\ PmidSeq(articles) = PmidSeq(last.results)

====
